---------------------------- MODULE Spec2Model ----------------------------
(***************************************************************************)
(* Model of src/answer_buttons.py (answer-button customisation of the      *)
(* review screen).                                                         *)
(*                                                                         *)
(* Markup is a sequence of atoms.  An atom is a run of characters that no  *)
(* substring operation of the program can split: the two patterns the code *)
(* searches for, '<td' and '<button', are spelled character by character,  *)
(* every other piece of text is one atom that holds no '<'.  Offsets into  *)
(* markup are 0-based, as in Python.                                       *)
(*                                                                         *)
(* A button is the pair <<ease, label>>, label being markup.               *)
(* A Python call either returns a value or raises: Return(v) / Raise(e).   *)
(***************************************************************************)
EXTENDS Integers, Sequences, FiniteSets, TLC

VARIABLES
    config,          \* the options read at the latest call
    buttons,         \* the button list handed to the hook / offered by the host for the card
    default_ease,    \* Reviewer._defaultEase() of the card
    html,            \* the markup handed to a markup function
    op,              \* the entry point that ran last
    result,          \* what it returned (or raised)
    bottom,          \* markup shown in the bottom bar (self.bottom.web)
    web_evals,       \* showAnswer(...) pushes the front-side handler made in the latest render
    height_adjusts,  \* adjustHeightToFit() calls it made in the latest render
    default_calls    \* calls of the host's default back-row renderer in the latest render

vars == <<config, buttons, default_ease, html, op, result, bottom,
          web_evals, height_adjusts, default_calls>>

---------------------------------------------------------------------------
(* Bounds *)

MaxLen == 3        \* longest button list handed to the hook
MaxEase == 3       \* action codes are 1..MaxEase in the hook's inputs
MaxFragments == 4  \* markup inputs are built from at most this many fragments
MaxButtons == 4    \* the host offers 2..MaxButtons grading buttons for a card

---------------------------------------------------------------------------
(* Python values *)

Return(v) == [raised |-> FALSE, value |-> v]

Raise(e) == [raised |-> TRUE, value |-> e]

None == <<>>

Min(a, b) == IF a < b THEN a ELSE b

\* s[:n] and s[n:] for 0 <= n
Prefix(s, n) == SubSeq(s, 1, Min(n, Len(s)))

Suffix(s, n) == SubSeq(s, Min(n, Len(s)) + 1, Len(s))

\* "".join(parts)
RECURSIVE Join(_)
Join(parts) == IF parts = <<>> THEN <<>> ELSE Head(parts) \o Join(Tail(parts))

\* pat occurs in s at 0-based offset i
MatchAt(s, pat, i) ==
    /\ i + Len(pat) <= Len(s)
    /\ \A k \in 1..Len(pat) : s[i + k] = pat[k]

\* the offsets at which pat occurs in s
Occurrences(s, pat) == {j \in 0..(Len(s) - Len(pat)) : MatchAt(s, pat, j)}

\* the least offset of the set hits that is at least i, -1 if none
next_match(hits, i) ==
    LET later == {j \in hits : j >= i}
    IN  IF later = {} THEN -1 ELSE CHOOSE j \in later : \A k \in later : j <= k

\* [m.start() for m in re.finditer(pat, s)] from offset i on: the leftmost
\* non-overlapping matches of a literal pattern, left to right
RECURSIVE finditer_from(_, _, _, _)
finditer_from(pat, s, hits, i) ==
    LET m == next_match(hits, i)
    IN  IF m = -1 THEN <<>> ELSE <<m>> \o finditer_from(pat, s, hits, m + Len(pat))

finditer(pat, s) == finditer_from(pat, s, Occurrences(s, pat), 0)

\* s.replace(old, new) from offset i on: every leftmost non-overlapping
\* occurrence of old replaced, the text between them kept
RECURSIVE replace_from(_, _, _, _, _)
replace_from(s, old, new, hits, i) ==
    LET m == next_match(hits, i)
    IN  IF m = -1 THEN Suffix(s, i)
        ELSE SubSeq(s, i + 1, m) \o new
                 \o replace_from(s, old, new, hits, m + Len(old))

str_replace(s, old, new) == replace_from(s, old, new, Occurrences(s, old), 0)

---------------------------------------------------------------------------
(* Literal text of the program *)

TD == <<"<", "t", "d">>

BUTTON == <<"<", "b", "u", "t", "t", "o", "n">>

BUTTON_DISABLED == BUTTON \o <<" ", "d", "i", "s", "a", "b", "l", "e", "d">>

SPAN == <<"<", "span">>

NOBOLD == <<"class=\"nobold\"">>

---------------------------------------------------------------------------
(* config *)

Configs ==
    [pass_fail : BOOLEAN, color_buttons : BOOLEAN, remove_buttons : BOOLEAN,
     prevent_clicks : BOOLEAN, flexible_grading : BOOLEAN]

NoConfig ==
    [pass_fail |-> FALSE, color_buttons |-> FALSE, remove_buttons |-> FALSE,
     prevent_clicks |-> FALSE, flexible_grading |-> FALSE]

\* config.get_color(ease, default_ease): the colour of an action code, by its
\* place relative to the card's default action; codes past the default fall
\* back to the last colour
get_color(ease, default) ==
    CASE ease = 1 -> "red"
      [] ease = default -> "green"
      [] ease < default -> "orange"
      [] OTHER -> "blue"

---------------------------------------------------------------------------
(* The button-list filter *)

is_again_or_good(button, default) == button[1] \in {1, default}

\* variant: the default action code taken to be 3 ("good") for every card
only_pass_fail_fixed_good(btns, default) ==
    SelectSeq(btns, LAMBDA button : button[1] \in {1, 3})

only_pass_fail(btns, default) ==
    SelectSeq(btns, LAMBDA button : is_again_or_good(button, default))

color_label(button, default) ==
    << button[1],
       <<"<", "font color=\"", get_color(button[1], default), "\">">>
           \o button[2] \o <<"<", "/font>">> >>

\* variant: the colour looked up for the default action code, not the button's
apply_label_colors_default_color(btns, default) ==
    [i \in 1..Len(btns) |-> <<btns[i][1], color_label(<<default, btns[i][2]>>, default)[2]>>]

apply_label_colors(btns, default) ==
    [i \in 1..Len(btns) |-> color_label(btns[i], default)]

\* variant: the second `if` written as `elif`
filter_answer_buttons_elif(cfg, btns, default) ==
    IF cfg.pass_fail THEN only_pass_fail(btns, default)
    ELSE IF cfg.color_buttons THEN apply_label_colors(btns, default)
    ELSE btns

filter_answer_buttons(cfg, btns, default) ==
    LET b1 == IF cfg.pass_fail THEN only_pass_fail(btns, default) ELSE btns
    IN  IF cfg.color_buttons THEN apply_label_colors(b1, default) ELSE b1

---------------------------------------------------------------------------
(* The host (aqt.reviewer.Reviewer), as far as this code calls it *)

EaseCmd(ease) == "ease" \o ToString(ease)

TimeTxt(ease) == "ivl" \o ToString(ease)

Label(ease) ==
    CASE ease = 1 -> <<"Again">>
      [] ease = 2 -> <<"Hard">>
      [] ease = 3 -> <<"Good">>
      [] ease = 4 -> <<"Easy">>
      [] OTHER -> <<"Other">>

\* the raw tuple of a card that offers n grading buttons
HostButtons(n) == [i \in 1..n |-> <<i, Label(i)>>]

\* Reviewer._answerButtonList: the raw tuple, passed through the hook
\* reviewer_will_init_answer_buttons, on which main() registers filter_answer_buttons
_answerButtonList(cfg, btns, default) == filter_answer_buttons(cfg, btns, default)

\* Reviewer._buttonTime(ease, v3_labels): the time to the next review
_buttonTime(ease) ==
    SPAN \o <<" ">> \o NOBOLD \o <<">", TimeTxt(ease), "<", "/span>", "<", "br>">>

\* Reviewer._remaining(): the remaining counts
_remaining == <<"10+70+108">>

\* one cell of the default back-side row
but(ease, label, default) ==
    TD \o <<" align=center>">> \o BUTTON
       \o (IF ease = default THEN <<" id=\"defease\"">> ELSE <<>>)
       \o <<" onclick='pycmd(\"", EaseCmd(ease), "\");'>">>
       \o label \o _buttonTime(ease) \o <<"<", "/button>", "<", "/td>">>

\* _ans_buttons_default = Reviewer._answerButtons before it is wrapped: one
\* cell for each entry of _answerButtonList
_ans_buttons_default(cfg, btns, default) ==
    LET l == _answerButtonList(cfg, btns, default)
    IN  <<"<", "center>", "<", "table cellpadding=0 cellspacing=0>", "<", "tr>">>
           \o Join([i \in 1..Len(l) |-> but(l[i][1], l[i][2], default)])
           \o <<"<", "/tr>", "<", "/table>">>

\* what Reviewer._showAnswerButton itself puts in the bottom bar
_showAnswerButton_default ==
    BUTTON \o <<" id=\"ansbut\" onclick='pycmd(\"ans\");'>", "Show Answer",
                "<", "span", " class=stattxt>">> \o _remaining
           \o <<"<", "/span>", "<", "/button>">>

---------------------------------------------------------------------------
(* The buttonless row *)

get_ease_row_css ==
    <<"\n    ", "<", "style>", ".ajt__ease_row {...}", "<", "/style>", "\n    ">>

button_time(cfg, ease, default) ==
    LET h == str_replace(_buttonTime(ease), NOBOLD, <<>>)
    IN  IF cfg.color_buttons
        THEN str_replace(h, SPAN,
                 SPAN \o <<" style=\"color: ", get_color(ease, default), ";\"">>)
        ELSE h

stat_txt == <<"<", "div class=\"ajt__stat_txt\">">> \o _remaining \o <<"<", "/div>">>

\* variant: l.append(x)
list_insert_append(l, i, x) == l \o <<x>>

\* l.insert(i, x) for 0 <= i
list_insert(l, i, x) == Prefix(l, i) \o <<x>> \o Suffix(l, i)

ease_row_html(ease_row) ==
    get_ease_row_css \o <<"<", "div class=\"ajt__ease_row\">">>
        \o Join(ease_row) \o <<"<", "/div>">>

\* variant: the host's raw tuple iterated instead of self._answerButtonList()
make_buttonless_ease_row_raw_list(cfg, btns, default, front) ==
    LET row1 == IF (~front) \/ cfg.flexible_grading
                THEN [i \in 1..Len(btns) |-> button_time(cfg, btns[i][1], default)]
                ELSE <<>>
        row2 == IF front THEN list_insert(row1, Len(row1) \div 2, stat_txt) ELSE row1
    IN  ease_row_html(row2)

make_buttonless_ease_row(cfg, btns, default, front) ==
    LET l == _answerButtonList(cfg, btns, default)
        row1 == IF (~front) \/ cfg.flexible_grading
                THEN [i \in 1..Len(l) |-> button_time(cfg, l[i][1], default)]
                ELSE <<>>
        row2 == IF front THEN list_insert(row1, Len(row1) \div 2, stat_txt) ELSE row1
    IN  ease_row_html(row2)

---------------------------------------------------------------------------
(* The back side *)

\* variant: html.replace('<button', '<button disabled', 1)
disable_buttons_first_only(h) ==
    LET m == next_match(Occurrences(h, BUTTON), 0)
    IN  IF m = -1 THEN h
        ELSE Prefix(h, m) \o BUTTON_DISABLED \o Suffix(h, m + Len(BUTTON))

disable_buttons(h) == str_replace(h, BUTTON, BUTTON_DISABLED)

\* variant: prevent_clicks tested before remove_buttons
make_backside_answer_buttons_prevent_first(cfg, btns, default) ==
    IF cfg.prevent_clicks
    THEN [row |-> disable_buttons(_ans_buttons_default(cfg, btns, default)), old |-> 1]
    ELSE IF cfg.remove_buttons
    THEN [row |-> make_buttonless_ease_row(cfg, btns, default, FALSE), old |-> 0]
    ELSE [row |-> _ans_buttons_default(cfg, btns, default), old |-> 1]

\* the row, and how often the default renderer _old was called for it
make_backside_answer_buttons(cfg, btns, default) ==
    IF cfg.remove_buttons
    THEN [row |-> make_buttonless_ease_row(cfg, btns, default, FALSE), old |-> 0]
    ELSE IF cfg.prevent_clicks
    THEN [row |-> disable_buttons(_ans_buttons_default(cfg, btns, default)), old |-> 1]
    ELSE [row |-> _ans_buttons_default(cfg, btns, default), old |-> 1]

---------------------------------------------------------------------------
(* The front side *)

make_show_ans_table_cell ==
    TD \o <<" align=center>", "\n        ">> \o BUTTON
       \o <<" title=\"Shortcut key: Space\" onclick='pycmd(\"ans\");'>", "Show Answer",
            "<", "span", " class=stattxt>">> \o _remaining
       \o <<"<", "/span>", "<", "/button>", "\n        ", "<", "/td>">>

\* l[-1]
last_item(l) == IF l = <<>> THEN Raise("IndexError") ELSE Return(l[Len(l)])

\* variant: cell_positions[:len(cell_positions) // 2]
up_to_middle_early(cell_positions) == Prefix(cell_positions, Len(cell_positions) \div 2)

\* cell_positions[:len(cell_positions) // 2 + 1]
up_to_middle(cell_positions) == Prefix(cell_positions, Len(cell_positions) \div 2 + 1)

calc_middle_insert_pos(buttons_html_table) ==
    last_item(up_to_middle(finditer(TD, buttons_html_table)))

\* line 138, unless line 137 raised
splice_show_ans(ans_buttons, insert_pos) ==
    IF insert_pos.raised THEN insert_pos
    ELSE Return(Prefix(ans_buttons, insert_pos.value) \o make_show_ans_table_cell
                    \o Suffix(ans_buttons, insert_pos.value))

\* lines 137-139, on the row the default renderer returned
flexible_front_row_of(ans_buttons) ==
    splice_show_ans(ans_buttons, calc_middle_insert_pos(ans_buttons))

make_flexible_front_row(cfg, btns, default) ==
    flexible_front_row_of(_ans_buttons_default(cfg, btns, default))

NoHtml == [some |-> FALSE, html |-> <<>>]

SomeHtml(h) == [some |-> TRUE, html |-> h]

\* variant: flexible_grading tested before remove_buttons
frontside_html_flexible_first(cfg, btns, default) ==
    IF cfg.flexible_grading
    THEN LET r == make_flexible_front_row(cfg, btns, default)
         IN  IF r.raised THEN [raised |-> TRUE, old |-> 1, value |-> r.value]
             ELSE IF cfg.prevent_clicks
             THEN [raised |-> FALSE, old |-> 1, value |-> SomeHtml(disable_buttons(r.value))]
             ELSE [raised |-> FALSE, old |-> 1, value |-> SomeHtml(r.value)]
    ELSE IF cfg.remove_buttons
    THEN [raised |-> FALSE, old |-> 0,
          value |-> SomeHtml(make_buttonless_ease_row(cfg, btns, default, TRUE))]
    ELSE [raised |-> FALSE, old |-> 0, value |-> NoHtml]

\* the value of the local `html` at line 150 (or the exception raised before
\* it), and how often the default renderer was called on the way
frontside_html(cfg, btns, default) ==
    IF cfg.remove_buttons
    THEN [raised |-> FALSE, old |-> 0,
          value |-> SomeHtml(make_buttonless_ease_row(cfg, btns, default, TRUE))]
    ELSE IF cfg.flexible_grading
    THEN LET r == make_flexible_front_row(cfg, btns, default)
         IN  IF r.raised THEN [raised |-> TRUE, old |-> 1, value |-> r.value]
             ELSE IF cfg.prevent_clicks
             THEN [raised |-> FALSE, old |-> 1, value |-> SomeHtml(disable_buttons(r.value))]
             ELSE [raised |-> FALSE, old |-> 1, value |-> SomeHtml(r.value)]
    ELSE [raised |-> FALSE, old |-> 0, value |-> NoHtml]

---------------------------------------------------------------------------
(* The review screen: the host renders the question side of a card, then   *)
(* its answer side.  The options are read anew at every render.            *)

Init ==
    /\ config = NoConfig
    /\ buttons = <<>>
    /\ default_ease = 1
    /\ html = <<>>
    /\ op = "none"
    /\ result = Return(None)
    /\ bottom = <<>>
    /\ web_evals = 0
    /\ height_adjusts = 0
    /\ default_calls = 0

\* The wrapped Reviewer._showAnswerButton for a new card: the host's own
\* front side, then make_frontside_answer_buttons ("after")
ShowQuestion ==
    \E cfg \in Configs, n \in 2..MaxButtons :
      \E d \in 2..n :
        \E h \in {frontside_html(cfg, HostButtons(n), d)} :
          \E pushed \in {(~h.raised) /\ h.value.some} :
            /\ config' = cfg
            /\ buttons' = HostButtons(n)
            /\ default_ease' = d
            /\ op' = "make_frontside_answer_buttons"
            /\ result' = IF h.raised THEN Raise(h.value) ELSE Return(None)
            /\ bottom' = IF pushed THEN h.value.html ELSE _showAnswerButton_default
            /\ web_evals' = IF pushed THEN 1 ELSE 0
            /\ height_adjusts' = IF pushed THEN 1 ELSE 0
            /\ default_calls' = h.old
            /\ UNCHANGED html

\* The host shows the answer side: showAnswer(self._answerButtons()), with
\* Reviewer._answerButtons wrapped "around" by make_backside_answer_buttons
ShowAnswer ==
    /\ op = "make_frontside_answer_buttons"
    /\ \E cfg \in Configs :
        \E r \in {make_backside_answer_buttons(cfg, buttons, default_ease)} :
            /\ config' = cfg
            /\ op' = "make_backside_answer_buttons"
            /\ result' = Return(r.row)
            /\ bottom' = r.row
            /\ default_calls' = r.old
            /\ web_evals' = 0
            /\ height_adjusts' = 0
            /\ UNCHANGED <<buttons, default_ease, html>>

Next == ShowQuestion \/ ShowAnswer

Spec == Init /\ [][Next]_vars

---------------------------------------------------------------------------
(* The button-list hook on its own, for every button list *)

Labels == {<<"Again">>, <<"Good">>}

RECURSIVE SeqsUpTo(_, _)
SeqsUpTo(S, n) ==
    IF n = 0 THEN {<<>>}
    ELSE LET shorter == SeqsUpTo(S, n - 1)
         IN  shorter \cup {Append(l, x) : l \in shorter, x \in S}

ButtonLists == SeqsUpTo((1..MaxEase) \X Labels, MaxLen)

\* the two options the hook reads
FilterConfigs ==
    {cfg \in Configs :
        ~cfg.remove_buttons /\ ~cfg.prevent_clicks /\ ~cfg.flexible_grading}

InitButtons ==
    /\ config = NoConfig
    /\ buttons \in ButtonLists
    /\ default_ease \in 1..MaxEase
    /\ html = <<>>
    /\ op = "none"
    /\ result = Return(None)
    /\ bottom = <<>>
    /\ web_evals = 0
    /\ height_adjusts = 0
    /\ default_calls = 0

CallOnlyPassFail ==
    /\ op' = "only_pass_fail"
    /\ result' = Return(only_pass_fail(buttons, default_ease))
    /\ UNCHANGED <<config, buttons, default_ease, html, bottom,
                   web_evals, height_adjusts, default_calls>>

CallApplyLabelColors ==
    /\ op' = "apply_label_colors"
    /\ result' = Return(apply_label_colors(buttons, default_ease))
    /\ UNCHANGED <<config, buttons, default_ease, html, bottom,
                   web_evals, height_adjusts, default_calls>>

CallFilterAnswerButtons ==
    \E cfg \in FilterConfigs :
        /\ config' = cfg
        /\ op' = "filter_answer_buttons"
        /\ result' = Return(filter_answer_buttons(cfg, buttons, default_ease))
        /\ UNCHANGED <<buttons, default_ease, html, bottom,
                       web_evals, height_adjusts, default_calls>>

NextButtons == CallOnlyPassFail \/ CallApplyLabelColors \/ CallFilterAnswerButtons

SpecButtons == InitButtons /\ [][NextButtons]_vars

---------------------------------------------------------------------------
(* The markup functions on their own, for every row *)

Fragments ==
    { TD, BUTTON, <<">">>, <<"Good">>, <<"<">>, <<"<", "/button>">>,
      <<"t", "d">>, <<" ", "d", "i", "s", "a", "b", "l", "e", "d">> }

Markups == {Join(fs) : fs \in SeqsUpTo(Fragments, MaxFragments)}

InitMarkup ==
    /\ config = NoConfig
    /\ buttons = <<>>
    /\ default_ease = 1
    /\ html \in Markups
    /\ op = "none"
    /\ result = Return(None)
    /\ bottom = <<>>
    /\ web_evals = 0
    /\ height_adjusts = 0
    /\ default_calls = 0

CallDisableButtons ==
    /\ op' = "disable_buttons"
    /\ result' = Return(disable_buttons(html))
    /\ UNCHANGED <<config, buttons, default_ease, html, bottom,
                   web_evals, height_adjusts, default_calls>>

CallCalcMiddleInsertPos ==
    /\ op' = "calc_middle_insert_pos"
    /\ result' = calc_middle_insert_pos(html)
    /\ UNCHANGED <<config, buttons, default_ease, html, bottom,
                   web_evals, height_adjusts, default_calls>>

\* make_flexible_front_row when the default renderer returns the row html
CallMakeFlexibleFrontRow ==
    /\ op' = "make_flexible_front_row"
    /\ result' = flexible_front_row_of(html)
    /\ UNCHANGED <<config, buttons, default_ease, html, bottom,
                   web_evals, height_adjusts, default_calls>>

NextMarkup ==
    CallDisableButtons \/ CallCalcMiddleInsertPos \/ CallMakeFlexibleFrontRow

SpecMarkup == InitMarkup /\ [][NextMarkup]_vars

---------------------------------------------------------------------------
(* Properties of the button-list hook (SpecButtons) *)

\* the indexes of the entries of l whose action code is 1 ("again") or d
KeptIndexes(l, d) == {i \in 1..Len(l) : l[i][1] = 1 \/ l[i][1] = d}

\* the j-th smallest member of the set S of numbers
NthOf(S, j) == CHOOSE i \in S : Cardinality({k \in S : k <= i}) = j

\* label wrapped as <font color="C">label</font>, C the colour of (ease, d)
Wrapped(ease, label, d) ==
    <<"<", "font color=\"", get_color(ease, d), "\">">> \o label \o <<"<", "/font>">>

\* C1: only_pass_fail(L, d) returns exactly the entries of L whose action code
\* is 1 or d, in their original order and unchanged, for every list L (the
\* empty one included) and every d; and [(1,Again),(2,Hard),(3,Good),(4,Easy)]
\* with d = 3 gives [(1,Again),(3,Good)].
C1_OnlyPassFail ==
    /\ op = "only_pass_fail" =>
         LET kept == KeptIndexes(buttons, default_ease)
             out == result.value
         IN  /\ ~result.raised
             /\ Len(out) = Cardinality(kept)
             /\ \A j \in 1..Len(out) : out[j] = buttons[NthOf(kept, j)]
    /\ only_pass_fail(HostButtons(4), 3) = << <<1, <<"Again">> >>, <<3, <<"Good">> >> >>

C1_Witness ==
    /\ op = "only_pass_fail"
    /\ Len(buttons) = 3
    /\ Len(result.value) = 2
    /\ buttons[2][1] \notin {1, default_ease}
    /\ default_ease # 1

\* C2: apply_label_colors(L, d) returns a list of the same length whose i-th
\* entry keeps the i-th action code and whose label is the i-th label wrapped
\* as <font color="C">label</font>, C the colour of (action code, d).
C2_ApplyLabelColors ==
    /\ op = "apply_label_colors" =>
         LET out == result.value
         IN  /\ ~result.raised
             /\ Len(out) = Len(buttons)
             /\ \A i \in 1..Len(buttons) :
                    /\ out[i][1] = buttons[i][1]
                    /\ out[i][2] = Wrapped(buttons[i][1], buttons[i][2], default_ease)
    /\ get_color(1, 3) = "red" =>
         apply_label_colors(<< <<1, <<"Again">> >> >>, 3)
             = << <<1, <<"<", "font color=\"", "red", "\">", "Again", "<", "/font>">> >> >>

C2_Witness ==
    /\ op = "apply_label_colors"
    /\ Len(buttons) >= 2
    /\ buttons[1][1] # buttons[2][1]
    /\ buttons[1][2] # buttons[2][2]
    /\ result.value[2][2] = Wrapped(buttons[2][1], buttons[2][2], default_ease)

\* C9: with pass_fail and color_buttons both on, filter_answer_buttons returns
\* the restricted list colorized, which is also the colorized list restricted
\* (the two operations commute), so every surviving entry carries its action
\* code and its own label text; with both off the list is returned unchanged.
C9_FilterOrder ==
    op = "filter_answer_buttons" =>
        LET kept == KeptIndexes(buttons, default_ease)
            out == result.value
        IN  /\ ~result.raised
            /\ (config.pass_fail /\ config.color_buttons) =>
                 /\ Len(out) = Cardinality(kept)
                 /\ \A j \in 1..Len(out) :
                      LET b == buttons[NthOf(kept, j)]
                      IN  out[j] = <<b[1], Wrapped(b[1], b[2], default_ease)>>
                 /\ out = apply_label_colors(only_pass_fail(buttons, default_ease), default_ease)
                 /\ out = only_pass_fail(apply_label_colors(buttons, default_ease), default_ease)
            /\ (~config.pass_fail /\ ~config.color_buttons) => out = buttons

C9_Witness ==
    /\ op = "filter_answer_buttons"
    /\ config.pass_fail /\ config.color_buttons
    /\ Len(buttons) = 3
    /\ Len(result.value) = 2

---------------------------------------------------------------------------
(* Properties of the markup functions (SpecMarkup) *)

\* the number of cell markers '<td' of a row
CellCount(h) == Cardinality(Occurrences(h, TD))

\* the index of the cell marker at offset p: the number of markers before it
CellIndex(h, p) == Cardinality({q \in Occurrences(h, TD) : q < p})

\* C3: for a row with N >= 0 cell markers calc_middle_insert_pos returns
\* without raising, at a cell index within 0..N, and for N = 0 and N = 1 the
\* insertion is at position 0.
C3_NeverRaises ==
    op = "calc_middle_insert_pos" =>
        /\ ~result.raised
        /\ CellIndex(html, result.value) \in 0..CellCount(html)
        /\ CellCount(html) = 0 => result.value = 0
        /\ CellCount(html) = 1 => CellIndex(html, result.value) = 0

\* the offsets of the button tags '<button' of h
ButtonTags(h) == Occurrences(h, BUTTON)

\* the disabled marker
DisabledMarker == <<" ", "d", "i", "s", "a", "b", "l", "e", "d">>

\* how far the text at index i of h moves when the disabled marker is put
\* after every button tag of h
ShiftAt(h, i) ==
    Len(DisabledMarker) * Cardinality({p \in ButtonTags(h) : p + Len(BUTTON) < i})

\* C4: in the output of disable_buttons every '<button' is immediately
\* followed by the disabled marker, the output has as many '<button' as the
\* input, and all other text is unchanged (the input's text is found in the
\* output, in order, moved only by the markers put in before it);
\* <button>Good</button> becomes <button disabled>Good</button>.
C4_DisableButtons ==
    /\ op = "disable_buttons" =>
         LET out == result.value
         IN  /\ ~result.raised
             /\ \A p \in ButtonTags(out) : MatchAt(out, DisabledMarker, p + Len(BUTTON))
             /\ Cardinality(ButtonTags(out)) = Cardinality(ButtonTags(html))
             /\ Len(out) = Len(html) + Len(DisabledMarker) * Cardinality(ButtonTags(html))
             /\ \A i \in 1..Len(html) : out[i + ShiftAt(html, i)] = html[i]
    /\ disable_buttons(BUTTON \o <<">", "Good", "<", "/button>">>)
           = BUTTON \o DisabledMarker \o <<">", "Good", "<", "/button>">>

C4_Witness ==
    /\ op = "disable_buttons"
    /\ Cardinality(ButtonTags(html)) = 2
    /\ html[Len(html)] = "Good"
    /\ Len(result.value) = Len(html) + 2 * Len(DisabledMarker)

\* C7: for a host row with N >= 1 cell markers make_flexible_front_row puts
\* exactly one show-answer cell immediately before the marker of index
\* N \div 2, so the result has N + 1 cells, and taking the cell out of the
\* result gives back the host row.
C7_FlexibleFrontRow ==
    (op = "make_flexible_front_row" /\ CellCount(html) >= 1) =>
        /\ ~result.raised
        /\ \E p \in Occurrences(html, TD) :
             LET out == result.value
                 cell == make_show_ans_table_cell
             IN  /\ CellIndex(html, p) = CellCount(html) \div 2
                 /\ out = SubSeq(html, 1, p) \o cell \o SubSeq(html, p + 1, Len(html))
                 /\ MatchAt(out, TD, p + Len(cell))
                 /\ CellCount(out) = CellCount(html) + 1
                 /\ SubSeq(out, 1, p) \o SubSeq(out, p + Len(cell) + 1, Len(out)) = html

C7_Witness ==
    /\ op = "make_flexible_front_row"
    /\ CellCount(html) = 4
    /\ ~result.raised
    /\ CellCount(result.value) = 5
    /\ CellIndex(result.value, Len(TD) * 2) = 2
    /\ MatchAt(result.value, make_show_ans_table_cell, Len(TD) * 2)

---------------------------------------------------------------------------
(* Properties of the review screen (Spec) *)

\* the button list of the latest render, as _answerButtonList gives it
ShownList == _answerButtonList(config, buttons, default_ease)

\* the time-to-next-review labels of that list, in list order
TimeLabels == [i \in 1..Len(ShownList) |-> button_time(config, ShownList[i][1], default_ease)]

\* row with the item x put in so that exactly k items of row come before it
WithItemAt(row, k, x) ==
    [j \in 1..(Len(row) + 1) |->
        IF j <= k THEN row[j] ELSE IF j = k + 1 THEN x ELSE row[j - 1]]

\* every button tag of h carries the disabled marker / none does
AllDisabled(h) == \A p \in ButtonTags(h) : MatchAt(h, DisabledMarker, p + Len(BUTTON))

NoneDisabled(h) == \A p \in ButtonTags(h) : ~MatchAt(h, DisabledMarker, p + Len(BUTTON))

\* C5: the back-side row is the buttonless row, built without calling the
\* host's default renderer, when remove_buttons is on (whatever prevent_clicks
\* is); the host's default row with every button disabled when remove_buttons
\* is off and prevent_clicks is on; the host's default row unchanged when both
\* are off.
C5_Backside ==
    op = "make_backside_answer_buttons" =>
        LET host_row == _ans_buttons_default(config, buttons, default_ease)
        IN  /\ ~result.raised
            /\ bottom = result.value
            /\ config.remove_buttons =>
                 /\ result.value = ease_row_html(TimeLabels)
                 /\ ButtonTags(result.value) = {}
                 /\ default_calls = 0
            /\ (~config.remove_buttons /\ config.prevent_clicks) =>
                 /\ AllDisabled(result.value)
                 /\ Cardinality(ButtonTags(result.value)) = Len(ShownList)
                 /\ str_replace(result.value, BUTTON \o DisabledMarker, BUTTON) = host_row
                 /\ default_calls = 1
            /\ (~config.remove_buttons /\ ~config.prevent_clicks) =>
                 /\ result.value = host_row
                 /\ default_calls = 1

C5_Witness ==
    /\ op = "make_backside_answer_buttons"
    /\ config.remove_buttons /\ config.prevent_clicks
    /\ Len(ShownList) = 3
    /\ bottom = ease_row_html(TimeLabels)
    /\ default_calls = 0

\* C6 as stated: whenever remove_buttons is on, the front-side row holds one
\* time label for each entry of the button list, in list order, and the
\* remaining-counts indicator at index N \div 2 of the N labels.
C6_LabelsWheneverRemoved ==
    (op = "make_frontside_answer_buttons" /\ config.remove_buttons) =>
        bottom = ease_row_html(WithItemAt(TimeLabels, Len(TimeLabels) \div 2, stat_txt))

\* C6, amended: whenever remove_buttons is on, the front-side row holds exactly
\* one remaining-counts indicator; with flexible_grading on it also holds one
\* time label for each entry of the button list, in list order, the indicator
\* at index N \div 2 of the N labels; with flexible_grading off it holds the
\* indicator alone.
C6_FrontRowWhenRemoved ==
    (op = "make_frontside_answer_buttons" /\ config.remove_buttons) =>
        /\ Cardinality(Occurrences(bottom, stat_txt)) = 1
        /\ config.flexible_grading =>
             bottom = ease_row_html(WithItemAt(TimeLabels, Len(TimeLabels) \div 2, stat_txt))
        /\ ~config.flexible_grading => bottom = ease_row_html(<<stat_txt>>)

C6_Witness ==
    /\ op = "make_frontside_answer_buttons"
    /\ config.remove_buttons /\ config.flexible_grading
    /\ Len(TimeLabels) = 3
    /\ bottom = ease_row_html(<<TimeLabels[1], stat_txt, TimeLabels[2], TimeLabels[3]>>)

\* C8: make_frontside_answer_buttons pushes markup, followed by one height
\* recalculation, exactly once when remove_buttons or flexible_grading is on,
\* and pushes nothing and asks for no resize when both are off, prevent_clicks
\* on included, so that the host's own front side stays; remove_buttons takes
\* precedence over flexible_grading; prevent_clicks disables the buttons of
\* the pushed row in the flexible_grading branch only.
C8_Frontside ==
    op = "make_frontside_answer_buttons" =>
        LET on == config.remove_buttons \/ config.flexible_grading
            flexible == make_flexible_front_row(config, buttons, default_ease)
        IN  /\ ~result.raised
            /\ web_evals = (IF on THEN 1 ELSE 0)
            /\ height_adjusts = web_evals
            /\ ~on =>
                 /\ bottom = _showAnswerButton_default
                 /\ NoneDisabled(bottom)
            /\ config.remove_buttons =>
                 /\ bottom = make_buttonless_ease_row(config, buttons, default_ease, TRUE)
                 /\ CellCount(bottom) = 0
            /\ (~config.remove_buttons /\ config.flexible_grading) =>
                 /\ CellCount(bottom) = Len(ShownList) + 1
                 /\ Cardinality(ButtonTags(bottom)) = Len(ShownList) + 1
                 /\ config.prevent_clicks =>
                      /\ AllDisabled(bottom)
                      /\ str_replace(bottom, BUTTON \o DisabledMarker, BUTTON) = flexible.value
                 /\ ~config.prevent_clicks =>
                      /\ NoneDisabled(bottom)
                      /\ bottom = flexible.value

C8_Witness ==
    /\ op = "make_frontside_answer_buttons"
    /\ ~config.remove_buttons /\ ~config.flexible_grading /\ config.prevent_clicks
    /\ web_evals = 0 /\ height_adjusts = 0
    /\ bottom = _showAnswerButton_default

\* the action codes of the grading entries that the markup h displays: the
\* codes of its grading buttons and of its time labels
ShownEases(h) ==
    {e \in 1..MaxButtons : \E i \in 1..Len(h) : h[i] = EaseCmd(e) \/ h[i] = TimeTxt(e)}

\* C10: with pass_fail on, whatever the other options are and whatever was
\* rendered before, no grading entry on display (a button of the default or
\* disabled back row or of the flexible front row, a time label of a
\* buttonless row) has an action code other than 1 or the default one.
C10_OnlyPassFailShown ==
    config.pass_fail => ShownEases(bottom) \subseteq {1, default_ease}

C10_Witness ==
    /\ config.pass_fail /\ config.remove_buttons
    /\ op = "make_backside_answer_buttons"
    /\ Len(buttons) = 4
    /\ ShownEases(bottom) = {1, default_ease}

=============================================================================
